---- MODULE Spec2Model ----
(***************************************************************************)
(* The credential vault of passSafe-BE: the six handlers of                *)
(* src/controllers/password.controller.ts over the PasswordModel           *)
(* collection.  A handler runs up to an await atomically; addPassword has  *)
(* two store calls (findOne, then create) and is therefore two steps.      *)
(***************************************************************************)
EXTENDS Integers, Sequences, FiniteSets, TLC

VARIABLES
    store,      \* the PasswordModel collection: documents in insertion order
    nextId,     \* the _id the next created document gets (never reused)
    pending,    \* per connection: the addPassword call between its two awaits
    last,       \* per connection: the last handler run that ended (request and response)
    supplied    \* history: the secrets addPassword was given, per document not edited in them

vars == <<store, nextId, pending, last, supplied>>

\* ---------------------------------------------------------------- bounds
MaxRecords == 2
MaxLen == 2

\* ---------------------------------------------------------------- values
Procs == {"p1", "p2", "p3"}
Owners == {"A", "B"}

\* websiteName values are character sequences: paginate searches inside them
Name1 == <<"A", "b">>
Name2 == <<"b", "c">>
Names == {Name1, Name2}

\* req.body of addPassword
Body(n, u, k) ==
    [websiteName |-> n, websiteUrl |-> u,
     username |-> <<"encU", k>>, usernameIv |-> <<"ivU", k>>,
     password |-> <<"encP", k>>, passwordIv |-> <<"ivP", k>>,
     passwordStrength |-> <<"score", k>>]

Idle == [pc |-> "idle"]
NoObs == [op |-> "None"]

Range(s) == {s[i] : i \in 1..Len(s)}
Ids(s) == {s[i]._id : i \in 1..Len(s)}

RECURSIVE SelectDocs(_, _)
\* the documents of s whose position is in keep, in their order
SelectDocs(s, keep) ==
    IF s = <<>> THEN <<>>
    ELSE LET rest == SelectDocs(Tail(s), {i - 1 : i \in keep \ {1}})
         IN IF 1 \in keep THEN <<Head(s)>> \o rest ELSE rest

Min(S) == CHOOSE x \in S : \A y \in S : x <= y

\* ---------------------------------------------------------------- addPassword
\* the existence check with url compared to the wrong body field
AddFilterUrlSlip(d, userId, body) ==
    /\ d.user = userId
    /\ d.websiteName = body.websiteName
    /\ d.url = body.websiteName

\* the filter of the existence check
AddFilter(d, userId, body) ==
    /\ d.user = userId
    /\ d.websiteName = body.websiteName
    /\ d.url = body.websiteUrl

\* the created document with the two initialization vectors exchanged
NewDocIvSwapped(userId, body) ==
    [_id |-> nextId,
     user |-> userId,
     websiteName |-> body.websiteName,
     url |-> body.websiteUrl,
     username |-> [encUsername |-> body.username, iv |-> body.passwordIv],
     password |-> [encPassword |-> body.password, iv |-> body.usernameIv],
     passwordStrength |-> body.passwordStrength]

\* the document handed to PasswordModel.create
NewDoc(userId, body) ==
    [_id |-> nextId,
     user |-> userId,
     websiteName |-> body.websiteName,
     url |-> body.websiteUrl,
     username |-> [encUsername |-> body.username, iv |-> body.usernameIv],
     password |-> [encPassword |-> body.password, iv |-> body.passwordIv],
     passwordStrength |-> body.passwordStrength]

\* the store's uniqueness rule on insert: (user, websiteName, url) is taken
DuplicateEntry(doc) ==
    \E d \in Range(store) :
        d.user = doc.user /\ d.websiteName = doc.websiteName /\ d.url = doc.url

\* history record of a created document: its secrets as the request gave them
Given(id, body) ==
    [_id |-> id,
     username |-> body.username, usernameIv |-> body.usernameIv,
     password |-> body.password, passwordIv |-> body.passwordIv,
     passwordStrength |-> body.passwordStrength]

AddObs(userId, body, kind, message) ==
    [op |-> "Add", owner |-> userId, body |-> body, kind |-> kind,
     message |-> message, records |-> <<>>]

InFlight == Cardinality({q \in Procs : pending[q].pc = "checked"})

\* first await: PasswordModel.findOne({user, websiteName, url})
AddCheck(p, userId, body, fail) ==
    /\ pending[p] = Idle
    /\ IF fail
       THEN /\ last' = [last EXCEPT ![p] =
                           AddObs(userId, body, "InternalFailure", "store failure")]
            /\ UNCHANGED <<store, nextId, pending, supplied>>
       ELSE IF \E d \in Range(store) : AddFilter(d, userId, body)
       THEN /\ last' = [last EXCEPT ![p] =
                           AddObs(userId, body, "Conflict",
                                  "Password already exists in the vault.")]
            /\ UNCHANGED <<store, nextId, pending, supplied>>
       ELSE /\ nextId + InFlight <= MaxRecords
            /\ pending' = [pending EXCEPT ![p] =
                              [pc |-> "checked", user |-> userId, body |-> body]]
            /\ UNCHANGED <<store, nextId, last, supplied>>

\* second await: PasswordModel.create(...); details.save() of the unmodified
\* document writes nothing
AddInsert(p, fail) ==
    /\ pending[p].pc = "checked"
    /\ pending' = [pending EXCEPT ![p] = Idle]
    /\ LET userId == pending[p].user
           body == pending[p].body
           doc == NewDoc(userId, body)
       IN IF fail
          THEN /\ last' = [last EXCEPT ![p] =
                              AddObs(userId, body, "InternalFailure", "store failure")]
               /\ UNCHANGED <<store, nextId, supplied>>
          ELSE IF DuplicateEntry(doc)
          THEN /\ last' = [last EXCEPT ![p] =
                              AddObs(userId, body, "InternalFailure", "duplicate key")]
               /\ UNCHANGED <<store, nextId, supplied>>
          ELSE /\ store' = Append(store, doc)
               /\ nextId' = nextId + 1
               /\ supplied' = supplied \cup {Given(nextId, body)}
               /\ last' = [last EXCEPT ![p] =
                              AddObs(userId, body, "Created",
                                     "Password information added successfully.")]

\* ---------------------------------------------------------------- getSinglePassword
GetSingleFilter(d, id, userId) == d._id = id /\ d.user = userId

GetOne(p, userId, id, fail) ==
    /\ p \in Procs
    /\ LET hits == {i \in 1..Len(store) : GetSingleFilter(store[i], id, userId)}
           found == IF hits = {} THEN <<>> ELSE <<store[Min(hits)]>>
           obs(kind, recs) == [op |-> "GetOne", owner |-> userId, id |-> id,
                               kind |-> kind, records |-> recs]
       IN last' = [last EXCEPT ![p] =
                      IF fail THEN obs("RawError", <<>>)
                      ELSE IF found = <<>> THEN obs("NotFound", <<>>)
                      ELSE obs("Ok", found)]
    /\ UNCHANGED <<store, nextId, pending, supplied>>

\* ---------------------------------------------------------------- editPassword
EditFilter(d, passwordId, userId) == d._id = passwordId /\ d.user = userId

\* { $set: updates }: every field the body names is overwritten
ApplySet(d, updates) ==
    [f \in DOMAIN d |-> IF f \in DOMAIN updates THEN updates[f] ELSE d[f]]

\* the database refuses a $set that would change _id
ChangesId(d, updates) == "_id" \in DOMAIN updates /\ updates._id # d._id

SecretFields == {"username", "password", "passwordStrength"}

Edit(p, userId, passwordId, updates, fail) ==
    /\ p \in Procs
    /\ LET hits == {i \in 1..Len(store) : EditFilter(store[i], passwordId, userId)}
           obs(kind, recs) == [op |-> "Edit", owner |-> userId, id |-> passwordId,
                               kind |-> kind, records |-> recs]
       IN IF fail
          THEN /\ last' = [last EXCEPT ![p] = obs("Unhandled", <<>>)]
               /\ UNCHANGED <<store, supplied>>
          ELSE IF hits = {}
          THEN /\ last' = [last EXCEPT ![p] = obs("NotFound", <<>>)]
               /\ UNCHANGED <<store, supplied>>
          ELSE LET i == Min(hits)
                   updated == ApplySet(store[i], updates)
               IN IF ChangesId(store[i], updates)
                  THEN /\ last' = [last EXCEPT ![p] = obs("Unhandled", <<>>)]
                       /\ UNCHANGED <<store, supplied>>
                  ELSE /\ store' = [store EXCEPT ![i] = updated]
                       /\ supplied' =
                             IF \A f \in DOMAIN updates \cap SecretFields :
                                    updates[f] = store[i][f]
                             THEN supplied
                             ELSE {s \in supplied : s._id # store[i]._id}
                       /\ last' = [last EXCEPT ![p] = obs("Ok", <<updated>>)]
    /\ UNCHANGED <<nextId, pending>>

\* ---------------------------------------------------------------- deleteSinglePassword
NoId == 0

\* the delete filter without the owner
DeleteOneFilterAnyOwner(d, passwordId, userId) == d._id = passwordId

DeleteOneFilter(d, passwordId, userId) == d._id = passwordId /\ d.user = userId

DeleteOne(p, userId, passwordId, fail) ==
    /\ p \in Procs
    /\ LET hits == {i \in 1..Len(store) : DeleteOneFilter(store[i], passwordId, userId)}
           gone == IF hits = {} THEN {} ELSE {Min(hits)}
           obs(kind, n) == [op |-> "DeleteOne", owner |-> userId, id |-> passwordId,
                            kind |-> kind, count |-> n, records |-> <<>>]
       IN IF passwordId = NoId
          THEN /\ last' = [last EXCEPT ![p] = obs("InvalidInput", 0)]
               /\ UNCHANGED <<store, supplied>>
          ELSE IF fail
          THEN /\ last' = [last EXCEPT ![p] = obs("Unhandled", 0)]
               /\ UNCHANGED <<store, supplied>>
          ELSE /\ store' = SelectDocs(store, (1..Len(store)) \ gone)
               /\ supplied' = {s \in supplied : s._id \in Ids(store')}
               /\ last' = [last EXCEPT ![p] =
                              IF Cardinality(gone) = 0 THEN obs("NotFound", 0)
                              ELSE obs("Ok", Cardinality(gone))]
    /\ UNCHANGED <<nextId, pending>>

\* ---------------------------------------------------------------- deleteMultiplePasswords
\* the bulk delete filter without the owner
DeleteManyFilterAnyOwner(d, passwordIds, userId) == d._id \in Range(passwordIds)

DeleteManyFilter(d, passwordIds, userId) ==
    d._id \in Range(passwordIds) /\ d.user = userId

\* req.body.passwordIds: an array, or something that is not one
IdArray(items) == [isArray |-> TRUE, items |-> items]
NotAnArray == [isArray |-> FALSE, items |-> <<>>]

DeleteMany(p, userId, passwordIds, fail) ==
    /\ p \in Procs
    /\ LET gone == {i \in 1..Len(store) :
                       DeleteManyFilter(store[i], passwordIds.items, userId)}
           obs(kind, n) == [op |-> "DeleteMany", owner |-> userId, ids |-> passwordIds,
                            kind |-> kind, count |-> n, records |-> <<>>]
       IN IF ~passwordIds.isArray \/ Len(passwordIds.items) = 0
          THEN /\ last' = [last EXCEPT ![p] = obs("InvalidInput", 0)]
               /\ UNCHANGED <<store, supplied>>
          ELSE IF fail
          THEN /\ last' = [last EXCEPT ![p] = obs("Unhandled", 0)]
               /\ UNCHANGED <<store, supplied>>
          ELSE /\ store' = SelectDocs(store, (1..Len(store)) \ gone)
               /\ supplied' = {s \in supplied : s._id \in Ids(store')}
               /\ last' = [last EXCEPT ![p] =
                              IF Cardinality(gone) = 0 THEN obs("NotFound", 0)
                              ELSE obs("Ok", Cardinality(gone))]
    /\ UNCHANGED <<nextId, pending>>

\* ---------------------------------------------------------------- getPassword
\* a query parameter: unset, or a string (a sequence of characters)
Unset == [set |-> FALSE, str |-> <<>>]
Str(cs) == [set |-> TRUE, str |-> cs]

Digit == ("0" :> 0) @@ ("1" :> 1) @@ ("2" :> 2) @@ ("3" :> 3) @@ ("4" :> 4) @@
         ("5" :> 5) @@ ("6" :> 6) @@ ("7" :> 7) @@ ("8" :> 8) @@ ("9" :> 9)

RECURSIVE SkipSpaces(_)
SkipSpaces(cs) ==
    IF cs # <<>> /\ Head(cs) = " " THEN SkipSpaces(Tail(cs)) ELSE cs

RECURSIVE LeadingDigits(_)
LeadingDigits(cs) ==
    IF cs # <<>> /\ Head(cs) \in DOMAIN Digit
    THEN <<Head(cs)>> \o LeadingDigits(Tail(cs))
    ELSE <<>>

RECURSIVE DigitsValue(_, _)
DigitsValue(ds, acc) ==
    IF ds = <<>> THEN acc ELSE DigitsValue(Tail(ds), 10 * acc + Digit[Head(ds)])

NaN == [nan |-> TRUE, val |-> 0]

\* parseInt(x as string): leading white space, an optional sign, then the longest
\* run of digits; NaN when there is none or the parameter is undefined
ParseInt(q) ==
    IF ~q.set THEN NaN
    ELSE LET t == SkipSpaces(q.str)
             neg == t # <<>> /\ Head(t) = "-"
             u == IF t # <<>> /\ Head(t) \in {"-", "+"} THEN Tail(t) ELSE t
             ds == LeadingDigits(u)
         IN IF ds = <<>> THEN NaN
            ELSE [nan |-> FALSE,
                  val |-> IF neg THEN 0 - DigitsValue(ds, 0) ELSE DigitsValue(ds, 0)]

\* the same fallback 1 for every parameter
ParseOrOne(q, dflt) ==
    LET n == ParseInt(q) IN IF n.nan \/ n.val = 0 THEN 1 ELSE n.val

\* parseInt(...) || dflt: NaN and 0 are falsy
ParseOr(q, dflt) ==
    LET n == ParseInt(q) IN IF n.nan \/ n.val = 0 THEN dflt ELSE n.val

\* the base filter the handler hands to paginate
ListFilter(d, userId) == d.user = userId

\* ---- utils/pagination (not among the sources): paginate as section 4.1 states it
Lower(c) == CASE c = "A" -> "a" [] c = "B" -> "b" [] c = "C" -> "c" [] OTHER -> c
LowerAll(cs) == [i \in 1..Len(cs) |-> Lower(cs[i])]

\* case-insensitive substring
Contains(text, term) ==
    \E k \in 0..(Len(text) - Len(term)) :
        \A j \in 1..Len(term) : Lower(text[k + j]) = Lower(term[j])

SearchMatches(d, search) == ~search.set \/ Contains(d.websiteName, search.str)

Clamp(n) == IF n < 1 THEN 1 ELSE n

CeilDiv(a, b) == (a + b - 1) \div b

Paginate(userId, search, page, limit) ==
    LET pg == Clamp(page)
        lim == Clamp(limit)
        matching == SelectDocs(store,
                        {i \in 1..Len(store) :
                            ListFilter(store[i], userId) /\ SearchMatches(store[i], search)})
        total == Len(matching)
        from == (pg - 1) * lim + 1
        to == IF pg * lim < total THEN pg * lim ELSE total
    IN [results |-> SubSeq(matching, from, to),
        query |-> [page |-> pg, limit |-> lim],
        pageInfo |-> [page |-> pg, limit |-> lim, totalCount |-> total,
                      totalPages |-> CeilDiv(total, lim)]]

\* ---- the handler
\* NotFound decided on the total count instead of the page
ListKindByTotal(paged) == IF paged.pageInfo.totalCount = 0 THEN "NotFound" ELSE "Ok"

\* !passwords.length
ListKind(paged) == IF Len(paged.results) = 0 THEN "NotFound" ELSE "Ok"

List(p, userId, pageQ, limitQ, search, fail) ==
    /\ p \in Procs
    /\ LET page == ParseOr(pageQ, 1)
           limit == ParseOr(limitQ, 10)
           paged == Paginate(userId, search, page, limit)
           obs(kind, recs) ==
               [op |-> "List", owner |-> userId,
                pageQ |-> pageQ, limitQ |-> limitQ, search |-> search,
                page |-> page, limit |-> limit, query |-> paged.query,
                kind |-> kind, records |-> recs, pageInfo |-> paged.pageInfo]
       IN last' = [last EXCEPT ![p] =
                      IF fail THEN obs("Unhandled", <<>>)
                      ELSE IF ListKind(paged) = "NotFound" THEN obs("NotFound", <<>>)
                      ELSE obs("Ok", paged.results)]
    /\ UNCHANGED <<store, nextId, pending, supplied>>

\* ---------------------------------------------------------------- inputs
IdInputs == 1..MaxRecords
GhostId == MaxRecords + 1

\* bodies of editPassword: arbitrary partial field maps
Updates ==
    {[websiteName |-> Name1], [_id |-> 1]} \cup {[user |-> o] : o \in Owners}

SecretUpdates ==
    {[passwordStrength |-> <<"score", "z">>],
     [username |-> [encUsername |-> <<"encU", "z">>, iv |-> <<"ivU", "z">>]]}

IdLists ==
    {NotAnArray, IdArray(<<>>), IdArray(<<1>>), IdArray(<<1, MaxRecords, GhostId>>)}
    \cup {IdArray(<<i, j>>) : i \in IdInputs \cup {GhostId}, j \in {MaxRecords, GhostId}}

MainBodies ==
    {Body(Name1, <<"u", "1">>, "x"), Body(Name2, <<"u", "1">>, "x"),
     Body(Name1, <<"u", "2">>, "x")}

RaceBodies == {Body(n, <<"u", "1">>, k) : n \in Names, k \in {"x", "y"}}

FaultBodies == {Body(Name1, <<"u", "1">>, "x"), Body(Name2, <<"u", "1">>, "y")}

Chars == {" ", "-", "0", "2", "a"}

QueryStrings ==
    {Unset} \cup {Str(cs) : cs \in UNION {[1..n -> Chars] : n \in 0..MaxLen}}

PageInputs == {Unset, Str(<<"2">>), Str(<<"3">>)}
LimitInputs == {Unset, Str(<<"1">>), Str(<<"2">>)}
SearchInputs == {Unset, Str(<<"a">>), Str(<<"B">>), Str(<<"b", "C">>), Str(<<"z">>)}

\* ---------------------------------------------------------------- specifications
Init ==
    /\ store = <<>>
    /\ nextId = 1
    /\ pending = [p \in Procs |-> Idle]
    /\ last = [p \in Procs |-> NoObs]
    /\ supplied = {}

\* every request sequence of one client, the store answering every call
Next ==
    \/ \E userId \in Owners, body \in MainBodies : AddCheck("p1", userId, body, FALSE)
    \/ AddInsert("p1", FALSE)
    \/ \E userId \in Owners : List("p1", userId, Unset, Unset, Unset, FALSE)
    \/ \E userId \in Owners, id \in IdInputs : GetOne("p1", userId, id, FALSE)
    \/ \E userId \in Owners, id \in IdInputs, updates \in Updates :
          Edit("p1", userId, id, updates, FALSE)
    \/ \E userId \in Owners, id \in IdInputs \cup {NoId} :
          DeleteOne("p1", userId, id, FALSE)
    \/ \E userId \in Owners, ids \in IdLists : DeleteMany("p1", userId, ids, FALSE)

Spec == Init /\ [][Next]_vars

\* two clients sending one addPassword each, in every interleaving of the four
\* store calls; a third client reads and edits what they created
NextAdd ==
    \/ \E p \in {"p1", "p2"}, userId \in Owners, body \in RaceBodies :
          /\ last[p] = NoObs
          /\ AddCheck(p, userId, body, FALSE)
    \/ \E p \in {"p1", "p2"} : AddInsert(p, FALSE)
    \/ \E userId \in Owners, id \in IdInputs : GetOne("p3", userId, id, FALSE)
    \/ \E userId \in Owners, id \in IdInputs, updates \in SecretUpdates :
          Edit("p3", userId, id, updates, FALSE)

SpecAdd == Init /\ [][NextAdd]_vars

\* one owner's requests, every store call free to fail
NextFault ==
    \/ \E id \in IdInputs, fail \in BOOLEAN : GetOne("p1", "A", id, fail)
    \/ \E body \in FaultBodies, fail \in BOOLEAN : AddCheck("p1", "A", body, fail)
    \/ \E fail \in BOOLEAN : AddInsert("p1", fail)
    \/ \E fail \in BOOLEAN : List("p1", "A", Unset, Unset, Unset, fail)
    \/ \E id \in IdInputs, updates \in Updates, fail \in BOOLEAN :
          Edit("p1", "A", id, updates, fail)
    \/ \E id \in IdInputs \cup {NoId}, fail \in BOOLEAN : DeleteOne("p1", "A", id, fail)
    \/ \E ids \in IdLists, fail \in BOOLEAN : DeleteMany("p1", "A", ids, fail)

SpecFault == Init /\ [][NextFault]_vars

\* getPassword on every query string up to MaxLen characters
NextParse ==
    \E pageQ \in QueryStrings :
        \E limitQ \in {Unset, pageQ, Str(<<"0">>), Str(<<"-", "2">>), Str(<<"a">>)} :
            List("p1", "A", pageQ, limitQ, Unset, FALSE)

SpecParse == Init /\ [][NextParse]_vars

\* getPassword with pages, limits and search terms over vaults built by addPassword
NextList ==
    \/ \E userId \in Owners, n \in Names :
          AddCheck("p1", userId, Body(n, <<"u", "1">>, "x"), FALSE)
    \/ AddInsert("p1", FALSE)
    \/ \E userId \in Owners, pageQ \in PageInputs, limitQ \in LimitInputs,
          search \in SearchInputs :
          List("p1", userId, pageQ, limitQ, search, FALSE)

SpecList == Init /\ [][NextList]_vars

\* ================================================================ claims
Tuple(d) == <<d.user, d.websiteName, d.url>>

\* connection p took a step
Acted(p) == last'[p] # last[p] \/ pending'[p] # pending[p]

\* a handler of connection p ended in this step with a response
Responded(p, op) == last'[p] # last[p] /\ last'[p].op = op

\* the account the step of connection p was made for
Requester(p) ==
    IF pending'[p] # pending[p] /\ pending'[p] # Idle
    THEN pending'[p].user ELSE last'[p].owner

\* what one step of connection p may touch and return
IsolationStep(p) ==
    Acted(p) =>
        /\ \A d \in Range(store) : d.user # Requester(p) => d \in Range(store')
        /\ last'[p] # last[p] =>
              \A k \in 1..Len(last'[p].records) :
                  \E d \in Range(store) :
                      d._id = last'[p].records[k]._id /\ d.user = last'[p].owner

\* C1: a request made for owner A never returns, changes or deletes a
\* document that belongs to another owner, whatever id it carries
C1_OwnerIsolation ==
    [][/\ \A p \in Procs : IsolationStep(p)
       /\ (\A p \in Procs : ~Acted(p)) => store' = store]_vars

\* a request carrying the id of another owner's document was answered NotFound
\* and the document is still there
C1_Witness ==
    /\ last["p1"].op \in {"GetOne", "Edit", "DeleteOne"}
    /\ last["p1"].kind = "NotFound"
    /\ \E d \in Range(store) : d._id = last["p1"].id /\ d.user # last["p1"].owner

\* both clients sent the same (user, websiteName, url) and both calls ended
BothAddsDone ==
    /\ pending["p1"] = Idle /\ pending["p2"] = Idle
    /\ last["p1"].op = "Add" /\ last["p2"].op = "Add"
    /\ last["p1"].owner = last["p2"].owner
    /\ last["p1"].body.websiteName = last["p2"].body.websiteName
    /\ last["p1"].body.websiteUrl = last["p2"].body.websiteUrl

\* C2: two addPassword calls with the same (user, websiteName, url), in any
\* interleaving of their findOne and create, leave exactly one document and end
\* one Created, one Conflict
C2_ConcurrentAddOneConflict ==
    BothAddsDone =>
        /\ Cardinality({i \in 1..Len(store) :
               Tuple(store[i]) = <<last["p1"].owner, last["p1"].body.websiteName,
                                   last["p1"].body.websiteUrl>>}) = 1
        /\ {last["p1"].kind, last["p2"].kind} = {"Created", "Conflict"}

\* C3: no two stored documents share (user, websiteName, url)
C3_TupleUnique ==
    \A i, j \in 1..Len(store) : i # j => Tuple(store[i]) # Tuple(store[j])

\* C4: a document keeps the user and the _id it was created with for as
\* long as it exists
C4_IdentityImmutable ==
    [][/\ \A d \in Range(store), e \in Range(store') : d._id = e._id => d.user = e.user
       /\ Len(store') = Len(store) =>
             \A i \in 1..Len(store) : store'[i]._id = store[i]._id]_vars

\* connection p begins an addPassword in this step: its findOne runs
AddStarts(p) ==
    /\ pending[p] = Idle
    /\ pending'[p] # Idle \/ Responded(p, "Add")

AddRequest(p) ==
    IF pending'[p] # Idle
    THEN [user |-> pending'[p].user, body |-> pending'[p].body]
    ELSE [user |-> last'[p].owner, body |-> last'[p].body]

Holds(userId, body) ==
    \E d \in Range(store) : Tuple(d) = <<userId, body.websiteName, body.websiteUrl>>

\* C5: addPassword for a (user, websiteName, url) the collection already
\* holds answers Conflict and leaves the collection as it was
C5_AddExistingConflicts ==
    [][\A p \in Procs :
          (AddStarts(p) /\ Holds(AddRequest(p).user, AddRequest(p).body)) =>
              /\ pending'[p] = Idle
              /\ last'[p].kind = "Conflict"
              /\ store' = store
              /\ Len(store') = Len(store)]_vars

C5_Witness ==
    /\ last["p1"].op = "Add"
    /\ last["p1"].kind = "Conflict"
    /\ Holds(last["p1"].owner, last["p1"].body)

\* what a deleteMultiplePasswords step removes and reports
DeleteManyStep(p) ==
    LET obs == last'[p]
        wanted == {d \in Range(store) :
                      d.user = obs.owner
                      /\ \E k \in 1..Len(obs.ids.items) : obs.ids.items[k] = d._id}
    IN (Responded(p, "DeleteMany") /\ obs.ids.isArray /\ obs.ids.items # <<>>) =>
          /\ Range(store') = Range(store) \ wanted
          /\ Len(store') = Len(store) - Cardinality(wanted)
          /\ obs.count = Cardinality(wanted)
          /\ obs.kind = IF obs.count = 0 THEN "NotFound" ELSE "Ok"

\* C6: deleteMultiplePasswords with a non-empty id array removes exactly the
\* requester's documents whose id is in it, touches nothing else, reports how
\* many it removed, and answers NotFound exactly when it removed none
C6_DeleteManyExact == [][\A p \in Procs : DeleteManyStep(p)]_vars

\* one call named a document of the requester (removed), one of another owner
\* (still stored) and an id of no document
C6_Witness ==
    LET obs == last["p1"]
    IN /\ obs.op = "DeleteMany"
       /\ obs.kind = "Ok"
       /\ obs.count = 1
       /\ \E d \in Range(store) : d._id \in Range(obs.ids.items) /\ d.user # obs.owner
       /\ \E k \in 1..Len(obs.ids.items) : obs.ids.items[k] >= nextId

\* the error kinds of the taxonomy, and the success outcomes
MappedKinds == {"InvalidInput", "Conflict", "NotFound", "InternalFailure"}
SuccessKinds == {"Ok", "Created"}

\* C7: every handler turns a failed store call into one of InvalidInput,
\* Conflict, NotFound, InternalFailure
C7_FailuresMapped ==
    \A p \in Procs :
        last[p].op # "None" => last[p].kind \in MappedKinds \cup SuccessKinds

\* the string starts, after white space and an optional sign, with a digit
HasNumber(q) ==
    /\ q.set
    /\ \E k \in 1..Len(q.str) :
          /\ q.str[k] \in {"0", "1", "2", "3", "4", "5", "6", "7", "8", "9"}
          /\ \A j \in 1..(k - 1) :
                \/ q.str[j] = " "
                \/ j = k - 1 /\ q.str[j] \in {"-", "+"}

Matches(d, userId, search) ==
    /\ d.user = userId
    /\ search.set =>
          \E i \in 1..(Len(d.websiteName) + 1), j \in 0..Len(d.websiteName) :
              LowerAll(SubSeq(d.websiteName, i, j)) = LowerAll(search.str)

ListStep(p) ==
    LET obs == last'[p]
        Mine(d) == Matches(d, obs.owner, obs.search)
        mine == SelectSeq(store, Mine)
        lo == (obs.query.page - 1) * obs.query.limit
        pageOf == [k \in 1..Len(mine) |-> k > lo /\ k <= lo + obs.query.limit]
        wanted == {k \in 1..Len(mine) : pageOf[k]}
    IN Responded(p, "List") =>
          /\ store' = store
          /\ obs.kind = IF wanted = {} THEN "NotFound" ELSE "Ok"
          /\ Len(obs.records) = Cardinality(wanted)
          /\ \A k \in 1..Len(obs.records) : obs.records[k] = mine[lo + k]
          /\ obs.pageInfo.page = obs.query.page
          /\ obs.pageInfo.limit = obs.query.limit
          /\ obs.pageInfo.totalCount = Len(mine)
          /\ obs.pageInfo.totalPages * obs.query.limit >= Len(mine)
          /\ (obs.pageInfo.totalPages - 1) * obs.query.limit < Len(mine)
          /\ obs.pageInfo.totalPages >= 0

\* C9: getPassword answers NotFound exactly when the requested page of the
\* owner's matching documents is empty, else that page with the page info, and
\* never changes the collection
C9_ListNotFoundIffEmpty == [][\A p \in Procs : ListStep(p)]_vars

\* NotFound for a page past the last one, and for a search term no websiteName holds
C9_Witness ==
    /\ last["p1"].op = "List"
    /\ last["p1"].kind = "NotFound"
    /\ \/ last["p1"].pageInfo.totalCount > 0
       \/ /\ last["p1"].search.set
          /\ \E d \in Range(store) : d.user = last["p1"].owner

\* what getSinglePassword returns for a document whose secrets are as created
RoundTripStep(p) ==
    \A g \in supplied : \A d \in Range(store) :
        (Responded(p, "GetOne") /\ last'[p].id = g._id
            /\ d._id = g._id /\ last'[p].owner = d.user) =>
            /\ last'[p].kind = "Ok"
            /\ Len(last'[p].records) = 1
            /\ last'[p].records[1]._id = g._id
            /\ last'[p].records[1].username =
                   [encUsername |-> g.username, iv |-> g.usernameIv]
            /\ last'[p].records[1].password =
                   [encPassword |-> g.password, iv |-> g.passwordIv]
            /\ last'[p].records[1].passwordStrength = g.passwordStrength

\* C10: getSinglePassword by the owner on a document addPassword created
\* returns the username and password cipher and iv and the passwordStrength
\* exactly as the request supplied them
C10_RoundTrip == [][\A p \in Procs : RoundTripStep(p)]_vars

C10_Witness ==
    \E g \in supplied :
        /\ last["p3"].op = "GetOne" /\ last["p3"].id = g._id
        /\ last["p3"].kind = "Ok"
        /\ g.username = <<"encU", "y">>

====
